---- MODULE Spec2Model ----
(***************************************************************************)
(* iamyouare: a diagnostic server that answers every TCP connection, UDP   *)
(* datagram or HTTP request with the server hostname and the client       *)
(* address, and shuts down on SIGTERM (after 60 s) or SIGINT (at once).    *)
(*                                                                         *)
(* The model is main() of src/iamyouare.go from flag.Parse() on (line 61), *)
(* for a process whose pid is not 1: the pid-1 branch (lines 51-59) hands  *)
(* over to the pid1 package, which re-runs this same program as a child.   *)
(* Each goroutine is a program counter; the environment (clients, the      *)
(* operating system's signals, the clock) is a set of actions.             *)
(***************************************************************************)
EXTENDS Integers, Sequences, FiniteSets, TLC

\* ---------------------------------------------------------------- bounds
MaxInputs == 2       \* connections, datagrams and requests the clients send in all
MaxSignals == 2      \* signals the operating system sends
TickStep == 30       \* the clock advances by at most this many seconds a step
MaxLen == 2          \* the longest identity string given to makeMessage

\* ------------------------------------------------------ program constants
GracePeriod == 60    \* time.Sleep(60 * time.Second)
ChanCap == 1         \* make(chan os.Signal, 1)
SIGTERM == 15        \* syscall.SIGTERM
SIGINT == 2          \* syscall.SIGINT
FatalCode == 1       \* log.Fatalf: os.Exit(1)

Signals == {SIGTERM, SIGINT}

\* ---------------------------------------------------------------- strings
\* A string is a sequence of characters.
Hostnames == { <<"n", "1">> }

\* The peer address of the k-th client: every connection, datagram and request
\* comes from a client of its own.
AddrOf(k) == [ip |-> <<"i", ToString(k)>>, port |-> <<"7">>]

\* net.Addr.String(): "ip:port"
AddrString(a) == a.ip \o <<":">> \o a.port

\* The characters of the identity strings: printable ones, the two that Go
\* and JSON escape with a backslash, a newline, and the control characters
\* BEL (0x07) and NUL (0x00), each written as one token.
Chars == {"a", "n", "\"", "\\", "\n", "BEL"}

\* One character as strconv.Quote writes it (Go syntax): \" and \\, the named
\* escapes \a \b \f \n \r \t \v, \x00 for other control characters, and a
\* printable character as it is.
QuoteChar(c) ==
    CASE c = "\"" -> <<"\\", "\"">>
      [] c = "\\" -> <<"\\", "\\">>
      [] c = "\n" -> <<"\\", "n">>
      [] c = "\t" -> <<"\\", "t">>
      [] c = "\r" -> <<"\\", "r">>
      [] c = "BEL" -> <<"\\", "a">>
      [] c = "NUL" -> <<"\\", "x", "0", "0">>
      [] OTHER    -> <<c>>

RECURSIVE QuoteBody(_)
QuoteBody(s) == IF s = <<>> THEN <<>> ELSE QuoteChar(Head(s)) \o QuoteBody(Tail(s))

\* The %q verb of fmt.Sprintf.
Quote(s) == <<"\"">> \o QuoteBody(s) \o <<"\"">>

\* Sprintf("{\"server\":%q, \"client\":%q}\n", hostname, client), in tokens.
makeMessage(host, client) ==
    <<"{", "\"server\"", ":">> \o Quote(host) \o <<",", " ", "\"client\"", ":">>
        \o Quote(client) \o <<"}", "\n">>

\* ------------------------------------------------------------------ state
VARIABLES
    args,        \* the command line's -tcp, -udp, -http (never changes)
    doTCP, doUDP, doHTTP,
    hostname,    \* <<>> until os.Hostname() returned
    mainPc,      \* where main() is
    exited, exitCode, exitCause,
    sockets,     \* the sockets the process has bound
    tcpPc, tcpConn, tcpClient, backlog, conns,
    udpPc, udpQueue, udpCur, udpSent, udpRecv, udpReplies,
    httpPc, reqs,
    late,        \* history: some client's input arrived while DRAINING
    notified, signals, sig, sigSent, sigLost,
    timers, termAt, now,
    fmtPc, fmtServer, fmtClient, fmtOut, fmtParsed   \* makeMessage on its own

mainVars == <<args, doTCP, doUDP, doHTTP, hostname, mainPc>>
exitVars == <<exited, exitCode, exitCause>>
tcpVars == <<tcpPc, tcpConn, tcpClient, backlog, conns>>
udpVars == <<udpPc, udpQueue, udpCur, udpSent, udpRecv, udpReplies>>
httpVars == <<httpPc, reqs>>
listenerVars == <<sockets, tcpVars, udpVars, httpVars, late>>
sigVars == <<notified, signals, sig, sigSent, sigLost>>
timeVars == <<timers, termAt, now>>
fmtVars == <<fmtPc, fmtServer, fmtClient, fmtOut, fmtParsed>>
sysVars == <<mainVars, exitVars, listenerVars, sigVars, timeVars>>
vars == <<sysVars, fmtVars>>

ConnIds == 1 .. MaxInputs
ReqIds == 1 .. MaxInputs
\* The request of the k-th client, a method and a path: they alternate.
RequestOf(k) ==
    IF k % 2 = 1 THEN [method |-> "GET", path |-> "/"]
                 ELSE [method |-> "POST", path |-> "/x"]

NoAddr == [ip |-> <<>>, port |-> <<>>]

\* What the clients have sent so far.
InputsSent ==
    Cardinality({c \in ConnIds : conns[c].state # "new"}) + udpSent
        + Cardinality({r \in ReqIds : reqs[r].state # "new"})

\* The shutdown coordinator's state: the code keeps no variable for it.
State ==
    IF exited THEN "TERMINATED"
    ELSE IF Len(timers) > 0 THEN "DRAINING"
    ELSE "RUNNING"

SysInit ==
    /\ args \in [tcp : BOOLEAN, udp : BOOLEAN, http : BOOLEAN]
    /\ doTCP = args.tcp
    /\ doUDP = args.udp
    /\ doHTTP = args.http
    /\ hostname = <<>>
    /\ mainPc = "default"
    /\ exited = FALSE
    /\ exitCode = -1
    /\ exitCause = "none"
    /\ sockets = {}
    /\ tcpPc = "off"
    /\ tcpConn = 0
    /\ tcpClient = <<>>
    /\ backlog = <<>>
    /\ conns = [c \in ConnIds |-> [state |-> "new", remote |-> NoAddr, writes |-> <<>>]]
    /\ udpPc = "off"
    /\ udpQueue = <<>>
    /\ udpCur = NoAddr
    /\ udpSent = 0
    /\ udpRecv = <<>>
    /\ udpReplies = <<>>
    /\ httpPc = "off"
    /\ reqs = [r \in ReqIds |-> [state |-> "new", remote |-> <<>>, method |-> "",
                                 path |-> "",
                                 header |-> <<>>, body |-> <<>>]]
    /\ late = FALSE
    /\ notified = FALSE
    /\ signals = <<>>
    /\ sig = 0
    /\ sigSent = 0
    /\ sigLost = <<>>
    /\ timers = <<>>
    /\ termAt = <<>>
    /\ now = 0

NoParse == [ok |-> FALSE, server |-> <<>>, client |-> <<>>]

\* The process as main() finds it; makeMessage is only called by the listeners.
Init ==
    /\ SysInit
    /\ fmtPc = "idle"
    /\ fmtServer = <<>>
    /\ fmtClient = <<>>
    /\ fmtOut = <<>>
    /\ fmtParsed = NoParse

\* os.Exit(code): the whole process stops, every goroutine with it.
Exit(code, cause) ==
    /\ exited' = TRUE
    /\ exitCode' = code
    /\ exitCause' = cause

\* log.Fatalf
Fatal(cause) == Exit(FatalCode, cause)

\* ------------------------------------------------------------- Bootstrap
\* Mutant: no mode is chosen when the command line selects none.
DefaultModeNone ==
    /\ ~exited /\ mainPc = "default"
    /\ mainPc' = "check"
    /\ UNCHANGED <<fmtVars, args, doTCP, doUDP, doHTTP, hostname, exitVars, listenerVars, sigVars,
                   timeVars>>

\* if !doHTTP && !doTCP && !doUDP { doHTTP = true }
DefaultMode ==
    /\ ~exited /\ mainPc = "default"
    /\ doHTTP' = IF ~doHTTP /\ ~doTCP /\ ~doUDP THEN TRUE ELSE doHTTP
    /\ mainPc' = "check"
    /\ UNCHANGED <<fmtVars, args, doTCP, doUDP, hostname, exitVars, listenerVars, sigVars, timeVars>>

\* if doHTTP && (doTCP || doUDP) { log.Fatalf(...) }
CheckModesFail ==
    /\ ~exited /\ mainPc = "check"
    /\ doHTTP /\ (doTCP \/ doUDP)
    /\ Fatal("config")
    /\ UNCHANGED <<fmtVars, mainVars, listenerVars, sigVars, timeVars>>

\* Mutant: the mode check lets every selection through.
CheckModesOkAlways ==
    /\ ~exited /\ mainPc = "check"
    /\ mainPc' = "hostname"
    /\ UNCHANGED <<fmtVars, args, doTCP, doUDP, doHTTP, hostname, exitVars, listenerVars, sigVars, timeVars>>

CheckModesOk ==
    /\ ~exited /\ mainPc = "check"
    /\ ~(doHTTP /\ (doTCP \/ doUDP))
    /\ mainPc' = "hostname"
    /\ UNCHANGED <<fmtVars, args, doTCP, doUDP, doHTTP, hostname, exitVars, listenerVars, sigVars, timeVars>>

\* hostname, err := os.Hostname()
HostnameOk ==
    /\ ~exited /\ mainPc = "hostname"
    /\ \E h \in Hostnames : hostname' = h
    /\ mainPc' = "tcp"
    /\ UNCHANGED <<fmtVars, args, doTCP, doUDP, doHTTP, exitVars, listenerVars, sigVars, timeVars>>

\* A start-up that goes on with an empty identity when os.Hostname fails.
HostnameFailContinue ==
    /\ ~exited /\ mainPc = "hostname"
    /\ mainPc' = "tcp"
    /\ UNCHANGED <<fmtVars, args, doTCP, doUDP, doHTTP, hostname, exitVars, listenerVars, sigVars,
                   timeVars>>

HostnameFail ==
    /\ ~exited /\ mainPc = "hostname"
    /\ Fatal("hostname")
    /\ UNCHANGED <<fmtVars, mainVars, listenerVars, sigVars, timeVars>>

\* ----------------------------------------------------------- TCP listener
\* listener, err := net.Listen("tcp", ...) fails
TcpListenFail ==
    /\ ~exited /\ mainPc = "tcp" /\ doTCP
    /\ Fatal("bind")
    /\ UNCHANGED <<fmtVars, mainVars, listenerVars, sigVars, timeVars>>

\* Mutant: the accept loop is called, not started with go: main() stays in it.
TcpListenOkInline ==
    /\ ~exited /\ mainPc = "tcp" /\ doTCP
    /\ sockets' = sockets \cup {"tcp"}
    /\ tcpPc' = "accept"
    /\ mainPc' = "tcpLoop"
    /\ UNCHANGED <<fmtVars, late, args, doTCP, doUDP, doHTTP, hostname, exitVars, tcpConn, tcpClient,
                   backlog, conns, udpVars, httpVars, sigVars, timeVars>>

\* net.Listen succeeds; go func() { for { ... } }()
TcpListenOk ==
    /\ ~exited /\ mainPc = "tcp" /\ doTCP
    /\ sockets' = sockets \cup {"tcp"}
    /\ tcpPc' = "accept"
    /\ mainPc' = "udp"
    /\ UNCHANGED <<fmtVars, late, args, doTCP, doUDP, doHTTP, hostname, exitVars, tcpConn, tcpClient,
                   backlog, conns, udpVars, httpVars, sigVars, timeVars>>

TcpSkip ==
    /\ ~exited /\ mainPc = "tcp" /\ ~doTCP
    /\ mainPc' = "udp"
    /\ UNCHANGED <<fmtVars, args, doTCP, doUDP, doHTTP, hostname, exitVars, listenerVars, sigVars, timeVars>>

\* A client connects: the kernel queues the connection on the listening socket.
ClientConnect(c) ==
    /\ ~exited /\ "tcp" \in sockets
    /\ InputsSent < MaxInputs
    /\ conns[c].state = "new"
    /\ \A d \in ConnIds : d < c => conns[d].state # "new"
    /\ conns' = [conns EXCEPT ![c] = [@ EXCEPT !.state = "pending",
                                                !.remote = AddrOf(InputsSent + 1)]]
    /\ late' = (late \/ State = "DRAINING")
    /\ backlog' = Append(backlog, c)
    /\ UNCHANGED <<fmtVars, mainVars, exitVars, sockets, tcpPc, tcpConn, tcpClient, udpVars,
                   httpVars, sigVars, timeVars>>

\* Mutant: client is set by the first connection only and reused after it.
TcpAcceptStaleClient ==
    /\ ~exited /\ tcpPc = "accept"
    /\ backlog # <<>>
    /\ tcpConn' = Head(backlog)
    /\ backlog' = Tail(backlog)
    /\ tcpClient' = IF tcpClient = <<>> THEN AddrString(conns[Head(backlog)].remote)
                                       ELSE tcpClient
    /\ conns' = [conns EXCEPT ![Head(backlog)].state = "accepted"]
    /\ tcpPc' = "write"
    /\ UNCHANGED <<fmtVars, late, mainVars, exitVars, sockets, udpVars, httpVars, sigVars, timeVars>>

\* conn, err := listener.Accept(); client := conn.RemoteAddr().String()
TcpAccept ==
    /\ ~exited /\ tcpPc = "accept"
    /\ backlog # <<>>
    /\ tcpConn' = Head(backlog)
    /\ backlog' = Tail(backlog)
    /\ tcpClient' = AddrString(conns[Head(backlog)].remote)
    /\ conns' = [conns EXCEPT ![Head(backlog)].state = "accepted"]
    /\ tcpPc' = "write"
    /\ UNCHANGED <<fmtVars, late, mainVars, exitVars, sockets, udpVars, httpVars, sigVars, timeVars>>

\* Accept() returns an error: log.Fatalf
\* An accept loop that only ends itself when Accept fails.
TcpAcceptFailReturn ==
    /\ ~exited /\ tcpPc = "accept"
    /\ tcpPc' = "off"
    /\ UNCHANGED <<fmtVars, late, mainVars, exitVars, sockets, tcpConn, tcpClient, backlog, conns,
                   udpVars, httpVars, sigVars, timeVars>>

TcpAcceptFail ==
    /\ ~exited /\ tcpPc = "accept"
    /\ Fatal("accept")
    /\ UNCHANGED <<fmtVars, mainVars, listenerVars, sigVars, timeVars>>

\* conn.Write([]byte(makeMessage(hostname, client))): the error is dropped
\* A connection handler that treats a failed Write as fatal.
TcpWriteFatal ==
    /\ ~exited /\ tcpPc = "write"
    /\ \E ok \in BOOLEAN :
         /\ conns' = [conns EXCEPT ![tcpConn].writes =
                         Append(@, [msg |-> makeMessage(hostname, tcpClient), ok |-> ok])]
         /\ IF ok THEN tcpPc' = "close" /\ UNCHANGED exitVars
                  ELSE tcpPc' = tcpPc /\ Fatal("write")
    /\ UNCHANGED <<fmtVars, late, mainVars, sockets, tcpConn, tcpClient, backlog, udpVars,
                   httpVars, sigVars, timeVars>>

TcpWrite ==
    /\ ~exited /\ tcpPc = "write"
    /\ \E ok \in BOOLEAN :
         conns' = [conns EXCEPT ![tcpConn].writes =
                      Append(@, [msg |-> makeMessage(hostname, tcpClient), ok |-> ok])]
    /\ tcpPc' = "close"
    /\ UNCHANGED <<fmtVars, late, mainVars, exitVars, sockets, tcpConn, tcpClient, backlog, udpVars,
                   httpVars, sigVars, timeVars>>

\* conn.Close()
TcpClose ==
    /\ ~exited /\ tcpPc = "close"
    /\ conns' = [conns EXCEPT ![tcpConn].state = "closed"]
    /\ tcpPc' = "accept"
    /\ UNCHANGED <<fmtVars, late, mainVars, exitVars, sockets, tcpConn, tcpClient, backlog, udpVars,
                   httpVars, sigVars, timeVars>>

\* ----------------------------------------------------------- UDP listener
\* addr, err := net.ResolveUDPAddr("udp", ...) fails
UdpResolveFail ==
    /\ ~exited /\ mainPc = "udp" /\ doUDP
    /\ Fatal("resolve")
    /\ UNCHANGED <<fmtVars, mainVars, listenerVars, sigVars, timeVars>>

\* sock, err := net.ListenUDP("udp", addr) fails
\* A start-up that goes on without UDP when ListenUDP fails.
UdpListenFailContinue ==
    /\ ~exited /\ mainPc = "udp" /\ doUDP
    /\ mainPc' = "http"
    /\ UNCHANGED <<fmtVars, late, args, doTCP, doUDP, doHTTP, hostname, exitVars, sockets, tcpVars,
                   udpVars, httpVars, sigVars, timeVars>>

UdpListenFail ==
    /\ ~exited /\ mainPc = "udp" /\ doUDP
    /\ Fatal("bind")
    /\ UNCHANGED <<fmtVars, mainVars, listenerVars, sigVars, timeVars>>

\* ListenUDP succeeds; go func() { for { ... } }()
UdpListenOk ==
    /\ ~exited /\ mainPc = "udp" /\ doUDP
    /\ sockets' = sockets \cup {"udp"}
    /\ udpPc' = "read"
    /\ mainPc' = "http"
    /\ UNCHANGED <<fmtVars, late, args, doTCP, doUDP, doHTTP, hostname, exitVars, tcpVars, udpQueue,
                   udpCur, udpSent, udpRecv, udpReplies, httpVars, sigVars, timeVars>>

UdpSkip ==
    /\ ~exited /\ mainPc = "udp" /\ ~doUDP
    /\ mainPc' = "http"
    /\ UNCHANGED <<fmtVars, args, doTCP, doUDP, doHTTP, hostname, exitVars, listenerVars, sigVars, timeVars>>

\* A client sends a datagram: the kernel queues it on the socket.
DatagramArrive ==
    /\ ~exited /\ "udp" \in sockets
    /\ InputsSent < MaxInputs
    /\ udpSent' = udpSent + 1
    /\ udpQueue' = Append(udpQueue, [from |-> AddrOf(InputsSent + 1), seq |-> udpSent + 1])
    /\ late' = (late \/ State = "DRAINING")
    /\ UNCHANGED <<fmtVars, mainVars, exitVars, sockets, tcpVars, udpPc, udpCur, udpRecv,
                   udpReplies, httpVars, sigVars, timeVars>>

\* _, cliAddr, err := sock.ReadFrom(buffer[0:])
UdpRead ==
    /\ ~exited /\ udpPc = "read"
    /\ udpQueue # <<>>
    /\ udpCur' = Head(udpQueue).from
    /\ udpRecv' = Append(udpRecv, Head(udpQueue))
    /\ udpQueue' = Tail(udpQueue)
    /\ udpPc' = "reply"
    /\ UNCHANGED <<fmtVars, late, mainVars, exitVars, sockets, tcpVars, udpSent, udpReplies, httpVars,
                   sigVars, timeVars>>

\* ReadFrom() returns an error: log.Fatalf
UdpReadFail ==
    /\ ~exited /\ udpPc = "read"
    /\ Fatal("receive")
    /\ UNCHANGED <<fmtVars, mainVars, listenerVars, sigVars, timeVars>>

\* Mutant: every reply goes to the sender of the first datagram.
UdpReplyFirstPeer ==
    /\ ~exited /\ udpPc = "reply"
    /\ \E ok \in BOOLEAN :
         udpReplies' = Append(udpReplies,
                          [to |-> udpRecv[1].from,
                           msg |-> makeMessage(hostname, AddrString(udpCur)), ok |-> ok])
    /\ udpPc' = "read"
    /\ UNCHANGED <<fmtVars, late, mainVars, exitVars, sockets, tcpVars, udpQueue, udpCur, udpSent,
                   udpRecv, httpVars, sigVars, timeVars>>

\* sock.WriteTo([]byte(makeMessage(hostname, cliAddr.String())), cliAddr):
\* the error is dropped
UdpReply ==
    /\ ~exited /\ udpPc = "reply"
    /\ \E ok \in BOOLEAN :
         udpReplies' = Append(udpReplies,
                          [to |-> udpCur, msg |-> makeMessage(hostname, AddrString(udpCur)),
                           ok |-> ok])
    /\ udpPc' = "read"
    /\ UNCHANGED <<fmtVars, late, mainVars, exitVars, sockets, tcpVars, udpQueue, udpCur, udpSent,
                   udpRecv, httpVars, sigVars, timeVars>>

\* ---------------------------------------------------------- HTTP listener
\* http.HandleFunc("/", ...); go func() { log.Fatal(http.ListenAndServe(...)) }()
HttpStart ==
    /\ ~exited /\ mainPc = "http" /\ doHTTP
    /\ httpPc' = "listen"
    /\ mainPc' = "notify"
    /\ UNCHANGED <<fmtVars, late, args, doTCP, doUDP, doHTTP, hostname, exitVars, sockets, tcpVars,
                   udpVars, reqs, sigVars, timeVars>>

HttpSkip ==
    /\ ~exited /\ mainPc = "http" /\ ~doHTTP
    /\ mainPc' = "notify"
    /\ UNCHANGED <<fmtVars, args, doTCP, doUDP, doHTTP, hostname, exitVars, listenerVars, sigVars, timeVars>>

\* ListenAndServe binds the port
HttpListenOk ==
    /\ ~exited /\ httpPc = "listen"
    /\ sockets' = sockets \cup {"http"}
    /\ httpPc' = "serve"
    /\ UNCHANGED <<fmtVars, late, mainVars, exitVars, tcpVars, udpVars, reqs, sigVars, timeVars>>

\* ListenAndServe returns an error (bind or serve): log.Fatal
HttpServeFail ==
    /\ ~exited /\ httpPc \in {"listen", "serve"}
    /\ Fatal(IF httpPc = "listen" THEN "bind" ELSE "serve")
    /\ UNCHANGED <<fmtVars, mainVars, listenerVars, sigVars, timeVars>>

\* A client's request reaches the server; the HTTP engine runs the handler in a
\* goroutine of its own.
RequestArrive(r) ==
    /\ ~exited /\ httpPc = "serve"
    /\ InputsSent < MaxInputs
    /\ reqs[r].state = "new"
    /\ \A o \in ReqIds : o < r => reqs[o].state # "new"
    /\ reqs' = [reqs EXCEPT ![r] = [@ EXCEPT !.state = "handler",
                                              !.remote = AddrString(AddrOf(InputsSent + 1)),
                                              !.method = RequestOf(InputsSent + 1).method,
                                              !.path = RequestOf(InputsSent + 1).path]]
    /\ late' = (late \/ State = "DRAINING")
    /\ UNCHANGED <<fmtVars, mainVars, exitVars, sockets, tcpVars, udpVars, httpPc, sigVars, timeVars>>

\* Mutant: the header is set for GET requests only.
HandlerHeaderGetOnly(r) ==
    /\ ~exited /\ httpPc = "serve"
    /\ reqs[r].state = "handler"
    /\ reqs' = [reqs EXCEPT ![r] = [@ EXCEPT !.state = "body",
                                    !.header = IF reqs[r].method = "GET"
                                                 THEN Append(@, <<"Connection", "close">>)
                                                 ELSE @]]
    /\ UNCHANGED <<fmtVars, late, mainVars, exitVars, sockets, tcpVars, udpVars, httpPc, sigVars, timeVars>>

\* w.Header().Add("Connection", "close")
HandlerHeader(r) ==
    /\ ~exited /\ httpPc = "serve"
    /\ reqs[r].state = "handler"
    /\ reqs' = [reqs EXCEPT ![r] = [@ EXCEPT !.state = "body",
                                    !.header = Append(@, <<"Connection", "close">>)]]
    /\ UNCHANGED <<fmtVars, late, mainVars, exitVars, sockets, tcpVars, udpVars, httpPc, sigVars, timeVars>>

\* fmt.Fprintf(w, "%s", makeMessage(hostname, r.RemoteAddr))
HandlerBody(r) ==
    /\ ~exited /\ httpPc = "serve"
    /\ reqs[r].state = "body"
    /\ reqs' = [reqs EXCEPT ![r] = [@ EXCEPT !.state = "done",
                                    !.body = Append(@, [msg |-> makeMessage(hostname, reqs[r].remote),
                                                        sentHeader |-> reqs[r].header])]]
    /\ UNCHANGED <<fmtVars, late, mainVars, exitVars, sockets, tcpVars, udpVars, httpPc, sigVars, timeVars>>

\* --------------------------------------------------- ShutdownCoordinator
\* signals := make(chan os.Signal, 1); signal.Notify(signals, SIGTERM, SIGINT)
Notify ==
    /\ ~exited /\ mainPc = "notify"
    /\ notified' = TRUE
    /\ mainPc' = "wait"
    /\ UNCHANGED <<fmtVars, args, doTCP, doUDP, doHTTP, hostname, exitVars, listenerVars, signals,
                   sig, sigSent, sigLost, timeVars>>

\* The operating system sends s before signal.Notify: the default disposition
\* kills the process.
SignalKill(s) ==
    /\ ~exited /\ ~notified
    /\ sigSent < MaxSignals
    /\ sigSent' = sigSent + 1
    /\ Exit(128 + s, "killed")
    /\ UNCHANGED <<fmtVars, mainVars, listenerVars, notified, signals, sig, sigLost, timeVars>>

\* The operating system sends s after signal.Notify: the runtime sends it on the
\* channel without blocking, and drops it when the buffer is full.
SignalArrive(s) ==
    /\ ~exited /\ notified
    /\ sigSent < MaxSignals
    /\ sigSent' = sigSent + 1
    /\ IF Len(signals) < ChanCap
         THEN signals' = Append(signals, s) /\ sigLost' = sigLost
         ELSE signals' = signals /\ sigLost' = Append(sigLost, s)
    /\ UNCHANGED <<fmtVars, mainVars, exitVars, listenerVars, notified, sig, timeVars>>

\* Mutant: the coordinator leaves its loop once a countdown has started.
CoordRecvOnce ==
    /\ ~exited /\ mainPc = "wait"
    /\ timers = <<>>
    /\ signals # <<>>
    /\ sig' = Head(signals)
    /\ signals' = Tail(signals)
    /\ termAt' = IF Head(signals) = SIGTERM THEN Append(termAt, now) ELSE termAt
    /\ mainPc' = "switch"
    /\ UNCHANGED <<fmtVars, args, doTCP, doUDP, doHTTP, hostname, exitVars, listenerVars, notified,
                   sigSent, sigLost, timers, now>>

\* sig := <-signals
CoordRecv ==
    /\ ~exited /\ mainPc = "wait"
    /\ signals # <<>>
    /\ sig' = Head(signals)
    /\ signals' = Tail(signals)
    /\ termAt' = IF Head(signals) = SIGTERM THEN Append(termAt, now) ELSE termAt
    /\ mainPc' = "switch"
    /\ UNCHANGED <<fmtVars, args, doTCP, doUDP, doHTTP, hostname, exitVars, listenerVars, notified,
                   sigSent, sigLost, timers, now>>

\* Mutant: SIGTERM is logged and no timer goroutine is started.
CoordTermNoTimer ==
    /\ ~exited /\ mainPc = "switch" /\ sig = SIGTERM
    /\ mainPc' = "wait"
    /\ UNCHANGED <<fmtVars, args, doTCP, doUDP, doHTTP, hostname, exitVars, listenerVars, sigVars,
                   timeVars>>

\* Mutant: SIGTERM also closes the listeners.
CoordTermStopListeners ==
    /\ ~exited /\ mainPc = "switch" /\ sig = SIGTERM
    /\ timers' = Append(timers, [start |-> now])
    /\ mainPc' = "wait"
    /\ sockets' = {}
    /\ tcpPc' = "off"
    /\ udpPc' = "off"
    /\ httpPc' = "off"
    /\ UNCHANGED <<fmtVars, late, args, doTCP, doUDP, doHTTP, hostname, exitVars, tcpConn, tcpClient,
                   backlog, conns, udpQueue, udpCur, udpSent, udpRecv, udpReplies, reqs,
                   sigVars, termAt, now>>

\* case syscall.SIGTERM: go func() { time.Sleep(60 * time.Second); os.Exit(0) }()
\* A coordinator that restarts the grace period on every SIGTERM.
CoordTermRestart ==
    /\ ~exited /\ mainPc = "switch" /\ sig = SIGTERM
    /\ timers' = <<[start |-> now]>>
    /\ mainPc' = "wait"
    /\ UNCHANGED <<fmtVars, args, doTCP, doUDP, doHTTP, hostname, exitVars, listenerVars, sigVars,
                   termAt, now>>

CoordTerm ==
    /\ ~exited /\ mainPc = "switch" /\ sig = SIGTERM
    /\ timers' = Append(timers, [start |-> now])
    /\ mainPc' = "wait"
    /\ UNCHANGED <<fmtVars, args, doTCP, doUDP, doHTTP, hostname, exitVars, listenerVars, sigVars,
                   termAt, now>>

\* Mutant: SIGINT is handled like SIGTERM.
CoordIntGrace ==
    /\ ~exited /\ mainPc = "switch" /\ sig = SIGINT
    /\ timers' = Append(timers, [start |-> now])
    /\ mainPc' = "wait"
    /\ UNCHANGED <<fmtVars, args, doTCP, doUDP, doHTTP, hostname, exitVars, listenerVars, sigVars,
                   termAt, now>>

\* case syscall.SIGINT: os.Exit(0)
CoordInt ==
    /\ ~exited /\ mainPc = "switch" /\ sig = SIGINT
    /\ Exit(0, "SIGINT")
    /\ UNCHANGED <<fmtVars, mainVars, listenerVars, sigVars, timeVars>>

\* Mutant: the sleep is 60 milliseconds, nothing at the clock's resolution.
SleepDoneMillis(i) == now >= timers[i].start

\* time.Sleep(60 * time.Second) has returned in timer goroutine i
SleepDone(i) == now >= timers[i].start + GracePeriod

\* os.Exit(0) in timer goroutine i
TimerExit(i) ==
    /\ ~exited
    /\ SleepDone(i)
    /\ Exit(0, "timer")
    /\ UNCHANGED <<fmtVars, mainVars, listenerVars, sigVars, timeVars>>

Min(a, b) == IF a < b THEN a ELSE b

\* Time passes while a timer goroutine sleeps, up to the moment the first of
\* them wakes. The coordinator's handling of a signal it has received takes no
\* time at the clock's resolution.
Tick ==
    /\ ~exited
    /\ mainPc # "switch"
    /\ timers # <<>>
    /\ \A i \in 1 .. Len(timers) : ~SleepDone(i)
    /\ now' = Min(now + TickStep, timers[1].start + GracePeriod)
    /\ UNCHANGED <<fmtVars, mainVars, exitVars, listenerVars, sigVars, timers, termAt>>

Next ==
    \/ DefaultMode
    \/ CheckModesFail
    \/ CheckModesOk
    \/ HostnameOk
    \/ HostnameFail
    \/ TcpListenFail
    \/ TcpListenOk
    \/ TcpSkip
    \/ \E c \in ConnIds : ClientConnect(c)
    \/ TcpAccept
    \/ TcpAcceptFail
    \/ TcpWrite
    \/ TcpClose
    \/ UdpResolveFail
    \/ UdpListenFail
    \/ UdpListenOk
    \/ UdpSkip
    \/ DatagramArrive
    \/ UdpRead
    \/ UdpReadFail
    \/ UdpReply
    \/ HttpStart
    \/ HttpSkip
    \/ HttpListenOk
    \/ HttpServeFail
    \/ \E r \in ReqIds : RequestArrive(r)
    \/ \E r \in ReqIds : HandlerHeader(r)
    \/ \E r \in ReqIds : HandlerBody(r)
    \/ Notify
    \/ \E s \in Signals : SignalKill(s)
    \/ \E s \in Signals : SignalArrive(s)
    \/ CoordRecv
    \/ CoordTerm
    \/ CoordInt
    \/ \E i \in 1 .. Len(timers) : TimerExit(i)
    \/ Tick

Spec == Init /\ [][Next]_vars

\* The Go scheduler runs every runnable goroutine, and the clock advances.
FairSpec ==
    /\ Spec
    /\ WF_vars(CoordTerm)
    /\ WF_vars(CoordInt)
    /\ WF_vars(Tick)
    /\ WF_vars(\E i \in 1 .. Len(timers) : TimerExit(i))

\* ------------------------------------------------ makeMessage on its own
\* makeMessage is a pure function of two strings.  This specification gives it
\* every pair of non-empty strings over Chars of length at most MaxLen and
\* hands the line it returns to a JSON reader.

Strings == UNION { [1 .. n -> Chars] : n \in 1 .. MaxLen }

\* What a JSON reader (RFC 8259) accepts inside a string: any character but a
\* raw control character, a quote or a backslash; and after a backslash one of
\* " \ / b f n r t (a \u escape is never written for the characters of Chars).
JsonControl == {"\n", "\t", "\r", "BEL", "NUL"}
JsonEscapes == {"\"", "\\", "/", "b", "f", "n", "r", "t"}
JsonUnescape(c) ==
    CASE c = "n" -> "\n"
      [] c = "t" -> "\t"
      [] c = "r" -> "\r"
      [] c = "b" -> "BS"
      [] c = "f" -> "FF"
      [] OTHER   -> c

\* Reads a JSON string whose opening quote is at s[i - 1]; acc is what has
\* been read so far.  next is the position after the closing quote.
RECURSIVE ScanString(_, _, _)
ScanString(s, i, acc) ==
    IF i > Len(s) THEN [ok |-> FALSE, val |-> acc, next |-> i]
    ELSE IF s[i] = "\"" THEN [ok |-> TRUE, val |-> acc, next |-> i + 1]
    ELSE IF s[i] = "\\"
         THEN IF i + 1 <= Len(s) /\ s[i + 1] \in JsonEscapes
              THEN ScanString(s, i + 2, Append(acc, JsonUnescape(s[i + 1])))
              ELSE [ok |-> FALSE, val |-> acc, next |-> i]
    ELSE IF s[i] \in JsonControl THEN [ok |-> FALSE, val |-> acc, next |-> i]
    ELSE ScanString(s, i + 1, Append(acc, s[i]))

HasAt(s, i, p) ==
    /\ i + Len(p) - 1 <= Len(s)
    /\ SubSeq(s, i, i + Len(p) - 1) = p

\* Reads one line as a JSON object with the string members server and client.
ParseMessage(out) ==
    IF ~HasAt(out, 1, <<"{", "\"server\"", ":", "\"">>) THEN NoParse
    ELSE LET a == ScanString(out, 5, <<>>) IN
         IF ~a.ok \/ ~HasAt(out, a.next, <<",", " ", "\"client\"", ":", "\"">>)
         THEN NoParse
         ELSE LET b == ScanString(out, a.next + 5, <<>>) IN
              IF b.ok /\ HasAt(out, b.next, <<"}", "\n">>)
                      /\ Len(out) = b.next + 1
              THEN [ok |-> TRUE, server |-> a.val, client |-> b.val]
              ELSE NoParse

\* No listener is configured to run: only the two strings vary.
FmtInit ==
    /\ SysInit
    /\ args = [tcp |-> FALSE, udp |-> FALSE, http |-> FALSE]
    /\ fmtPc = "format"
    /\ fmtServer \in Strings
    /\ fmtClient \in Strings
    /\ fmtOut = <<>>
    /\ fmtParsed = NoParse

\* return fmt.Sprintf(...)
Format ==
    /\ fmtPc = "format"
    /\ fmtOut' = makeMessage(fmtServer, fmtClient)
    /\ fmtPc' = "parse"
    /\ UNCHANGED <<sysVars, fmtServer, fmtClient, fmtParsed>>

\* The client reads the line it was sent.
ParseBack ==
    /\ fmtPc = "parse"
    /\ fmtParsed' = ParseMessage(fmtOut)
    /\ fmtPc' = "done"
    /\ UNCHANGED <<sysVars, fmtServer, fmtClient, fmtOut>>

FmtNext == Format \/ ParseBack
FmtSpec == FmtInit /\ [][FmtNext]_vars

\* ================================================================= claims

\* C1: once the coordinator has received a SIGTERM, the process eventually
\* exits, whatever happens next and also when no further signal arrives.
C1_SigtermLeadsToExit == (Len(termAt) > 0) ~> exited

\* C1 witness: one signal was ever sent, a SIGTERM, and its timer ended the process.
C1_Witness ==
    /\ exited /\ exitCause = "timer"
    /\ sigSent = 1 /\ Len(termAt) = 1 /\ signals = <<>>

\* C2: handling a SIGTERM in RUNNING starts the countdown (DRAINING) and does
\* not exit; a timer goroutine exits only when 60 s have passed since the
\* coordinator received that timer's SIGTERM, and it exits with code 0.
C2_GraceThenExit ==
    [][ /\ (State = "RUNNING" /\ mainPc = "switch" /\ sig = SIGTERM /\ mainPc' # mainPc)
           => (~exited' /\ State' = "DRAINING")
        /\ (mainPc = "wait" /\ mainPc' = "switch" /\ sig' = SIGTERM) => ~exited'
        /\ \A i \in 1 .. Len(timers) :
             TimerExit(i) => (now >= termAt[i] + GracePeriod /\ exitCode' = 0)
        /\ (exitCause' = "timer" /\ ~exited)
             => (exitCode' = 0 /\ \E i \in 1 .. Len(termAt) : now' >= termAt[i] + GracePeriod)
      ]_vars

\* C2 witness: the process was DRAINING and its timer ended it, 60 s after the SIGTERM.
C2_Witness ==
    /\ exited /\ exitCause = "timer" /\ exitCode = 0
    /\ Len(termAt) >= 1 /\ now = termAt[1] + GracePeriod

\* C3: with a SIGINT received in RUNNING, the coordinator's next step is
\* os.Exit(0): it starts no timer and does not go back to the channel.
C3_SigintExitsAtOnce ==
    [][ (~exited /\ State = "RUNNING" /\ mainPc = "switch" /\ sig = SIGINT)
           => /\ ENABLED CoordInt
              /\ ~ENABLED CoordTerm
              /\ mainPc' = "switch"
              /\ timers' = timers
              /\ CoordInt => (exited' /\ exitCode' = 0 /\ now' = now)
              /\ exited' => (exitCode' = 0 <=> exitCause' = "SIGINT")
      ]_vars

\* C3 witness: SIGINT ended the process while no countdown was running.
C3_Witness ==
    /\ exited /\ exitCause = "SIGINT" /\ exitCode = 0
    /\ timers = <<>> /\ termAt = <<>>

\* C4: while DRAINING the coordinator is still in its loop and takes the next
\* signal; a SIGINT it receives then exits the process with code 0 at once,
\* whatever is left of the grace period.
C4_SigintWhileDraining ==
    [][ /\ (~exited /\ State = "DRAINING") => mainPc \in {"wait", "switch"}
        /\ (~exited /\ State = "DRAINING" /\ mainPc = "wait" /\ signals # <<>>)
             => ENABLED CoordRecv
        /\ (~exited /\ State = "DRAINING" /\ mainPc = "switch" /\ sig = SIGINT)
             => /\ ENABLED CoordInt
                /\ mainPc' = "switch"
                /\ timers' = timers
                /\ CoordInt => (exited' /\ exitCode' = 0 /\ now' = now)
      ]_vars

\* C4 witness: SIGINT ended the process before the countdown was over.
C4_Witness ==
    /\ exited /\ exitCause = "SIGINT" /\ exitCode = 0
    /\ timers # <<>> /\ now < timers[1].start + GracePeriod

\* C5: starting the countdown changes nothing in the listeners; no listener
\* ever stops while the process lives; and while DRAINING each listener can
\* take its next step on what the clients sent.
C5_ListenersKeepRunning ==
    [][ /\ (State = "RUNNING" /\ State' = "DRAINING") => UNCHANGED listenerVars
        /\ (mainPc = "wait" /\ mainPc' = "switch") => UNCHANGED listenerVars
        /\ ~exited' =>
             /\ sockets \subseteq sockets'
             /\ tcpPc # "off" => tcpPc' # "off"
             /\ udpPc # "off" => udpPc' # "off"
             /\ httpPc # "off" => httpPc' # "off"
        /\ (~exited /\ State = "DRAINING") =>
             /\ (tcpPc = "accept" /\ backlog # <<>>) => ENABLED TcpAccept
             /\ tcpPc = "write" => ENABLED TcpWrite
             /\ tcpPc = "close" => ENABLED TcpClose
             /\ "tcp" \in sockets => \A c \in ConnIds :
                  (conns[c].state = "new" /\ InputsSent < MaxInputs
                     /\ \A d \in ConnIds : d < c => conns[d].state # "new")
                  => ENABLED ClientConnect(c)
             /\ (udpPc = "read" /\ udpQueue # <<>>) => ENABLED UdpRead
             /\ udpPc = "reply" => ENABLED UdpReply
             /\ httpPc = "serve" => \A r \in ReqIds :
                  /\ reqs[r].state = "handler" => ENABLED HandlerHeader(r)
                  /\ reqs[r].state = "body" => ENABLED HandlerBody(r)
      ]_vars

\* C5 witness: the process is DRAINING, a connection and a datagram have come
\* in, one of them at least while DRAINING, and each has been answered.
C5_Witness ==
    /\ ~exited /\ State = "DRAINING" /\ late
    /\ InputsSent = 2
    /\ \E c \in ConnIds : conns[c].state = "closed" /\ Len(conns[c].writes) = 1
    /\ Len(udpReplies) = 1 /\ udpQueue = <<>> /\ udpPc = "read"

\* C6: the HTTP listener is never active together with the TCP or the UDP
\* listener, and with no mode on the command line main() starts the HTTP
\* listener and no other. (TCP and UDP together: see the witness.)
C6_ModesExclusive ==
    /\ ~(httpPc # "off" /\ (tcpPc # "off" \/ udpPc # "off"))
    /\ ~("http" \in sockets /\ sockets # {"http"})
    /\ (~args.tcp /\ ~args.udp /\ ~args.http /\ mainPc \in {"notify", "wait", "switch"})
         => (httpPc # "off" /\ tcpPc = "off" /\ udpPc = "off" /\ sockets \subseteq {"http"})

\* C6 witness: the TCP and the UDP listener are active together, both sockets
\* bound, in a live process.
C6_Witness ==
    /\ ~exited /\ tcpPc # "off" /\ udpPc # "off" /\ sockets = {"tcp", "udp"}

\* C7: with -http given together with -tcp or -udp, main() never gets past
\* the mode check, where the only step it can take is the fatal one: no socket
\* is ever bound, no listener ever starts.
C7_ConflictIsFatal ==
    (args.http /\ (args.tcp \/ args.udp)) =>
        /\ sockets = {}
        /\ tcpPc = "off" /\ udpPc = "off" /\ httpPc = "off"
        /\ mainPc \in {"default", "check"}
        /\ (~exited /\ mainPc = "check") => (ENABLED CheckModesFail /\ ~ENABLED CheckModesOk)
        /\ exited => (exitCode # 0 /\ exitCause \in {"config", "killed"})

\* C7 witness: -tcp -http ended in the fatal configuration error.
C7_Witness ==
    /\ args.http /\ args.tcp
    /\ exited /\ exitCause = "config" /\ exitCode = FatalCode

\* C8, as claimed: while the response to one connection is still to be
\* written, the listener can accept the next connection waiting.
C8_AcceptWhileWriting ==
    (~exited /\ tcpPc = "write" /\ backlog # <<>>) => ENABLED TcpAccept

\* C9: the server calls Write once for every connection it accepted, with the
\* message made of the hostname and that connection's peer address, and then
\* closes it: a closed connection has exactly one write, a connection not yet
\* accepted has none, and the only connection open is the one being handled.
C9_OneWriteThenClose ==
    \A c \in ConnIds :
        /\ conns[c].state \in {"new", "pending"} => conns[c].writes = <<>>
        /\ conns[c].state = "accepted" =>
             /\ tcpConn = c /\ tcpPc \in {"write", "close"}
             /\ Len(conns[c].writes) = (IF tcpPc = "close" THEN 1 ELSE 0)
        /\ conns[c].state = "closed" => Len(conns[c].writes) = 1
        /\ \A i \in 1 .. Len(conns[c].writes) :
             conns[c].writes[i].msg = makeMessage(hostname, AddrString(conns[c].remote))

\* C9 witness: two connections from different peers, each answered and closed.
C9_Witness ==
    /\ \A c \in {1, 2} : conns[c].state = "closed" /\ Len(conns[c].writes) = 1
    /\ conns[1].remote # conns[2].remote
    /\ conns[1].writes[1].msg # conns[2].writes[1].msg

\* C10: the UDP loop answers the datagrams it read one by one, in the order
\* they arrived: the i-th reply goes to the sender of the i-th datagram read
\* and carries that sender's address, and a datagram is read only when every
\* datagram read before it has its reply.
C10_OneReplyPerDatagram ==
    /\ Len(udpRecv) = Len(udpReplies) + (IF udpPc = "reply" THEN 1 ELSE 0)
    /\ udpPc = "reply" => udpCur = udpRecv[Len(udpRecv)].from
    /\ \A i \in 1 .. Len(udpReplies) :
         /\ udpReplies[i].to = udpRecv[i].from
         /\ udpReplies[i].msg = makeMessage(hostname, AddrString(udpRecv[i].from))
    /\ \A i \in 1 .. Len(udpRecv) : udpRecv[i].seq = i
    /\ \A i \in 1 .. Len(udpQueue) : udpQueue[i].seq = Len(udpRecv) + i

\* C10 witness: two datagrams from different senders, each with its reply.
C10_Witness ==
    /\ Len(udpReplies) = 2 /\ udpPc = "read"
    /\ udpReplies[1].to # udpReplies[2].to

\* C11: the handler of every request, whatever its method and path, has set
\* the one header Connection: close by the time it writes the body, and the
\* body it writes is one message, made of the hostname and the request's
\* remote address.
C11_HeaderThenBody ==
    \A r \in ReqIds :
        /\ reqs[r].state \in {"new", "handler"} => (reqs[r].header = <<>> /\ reqs[r].body = <<>>)
        /\ reqs[r].state = "body" =>
             (reqs[r].header = << <<"Connection", "close">> >> /\ reqs[r].body = <<>>)
        /\ reqs[r].state = "done" =>
             /\ reqs[r].header = << <<"Connection", "close">> >>
             /\ Len(reqs[r].body) = 1
             /\ reqs[r].body[1].sentHeader = << <<"Connection", "close">> >>
             /\ reqs[r].body[1].msg = makeMessage(hostname, reqs[r].remote)

\* C11 witness: a GET of / and a POST of /x, from different clients, both answered.
C11_Witness ==
    /\ \A r \in {1, 2} : reqs[r].state = "done"
    /\ reqs[1].method # reqs[2].method /\ reqs[1].path # reqs[2].path
    /\ reqs[1].body[1].msg # reqs[2].body[1].msg

\* C12: the TCP loop, the UDP loop and main() are goroutines of their own.
\* Once the TCP loop runs, main() goes on to start the UDP loop and to wait
\* for signals; whatever the other loop is doing (blocked in Accept or
\* ReadFrom, or handling), each loop can take its next step, and main() can
\* take a signal from the channel; a step of one loop changes nothing of the
\* other loop or of main().
C12_IndependentUnits ==
    [][ /\ (~exited /\ tcpPc # "off") =>
             /\ mainPc \in {"udp", "http", "notify", "wait", "switch"}
             /\ (doUDP /\ mainPc # "udp") => udpPc # "off"
        /\ (~exited /\ udpPc # "off") => mainPc \in {"http", "notify", "wait", "switch"}
        /\ ~exited =>
             /\ (tcpPc = "accept" /\ backlog # <<>>) => ENABLED TcpAccept
             /\ tcpPc = "write" => ENABLED TcpWrite
             /\ tcpPc = "close" => ENABLED TcpClose
             /\ (udpPc = "read" /\ udpQueue # <<>>) => ENABLED UdpRead
             /\ udpPc = "reply" => ENABLED UdpReply
             /\ (mainPc = "wait" /\ signals # <<>>) => ENABLED CoordRecv
        /\ (tcpPc # "off" /\ <<tcpPc, tcpConn, tcpClient>> # <<tcpPc', tcpConn', tcpClient'>>)
             => UNCHANGED <<udpVars, mainVars, sigVars, timeVars>>
        /\ (udpPc # "off" /\ <<udpPc, udpCur, udpRecv, udpReplies>>
                                # <<udpPc', udpCur', udpRecv', udpReplies'>>)
             => UNCHANGED <<tcpVars, mainVars, sigVars, timeVars>>
      ]_vars

\* C12 witness: the TCP loop is blocked in Accept, no client having connected,
\* while the UDP loop has answered a datagram and main() has taken a SIGTERM.
C12_Witness ==
    /\ ~exited /\ tcpPc = "accept" /\ backlog = <<>>
    /\ \A c \in ConnIds : conns[c].state = "new"
    /\ Len(udpReplies) >= 1 /\ udpPc = "read"
    /\ Len(timers) >= 1

\* C13: for every pair of non-empty strings, the line makeMessage returns is
\* one JSON object terminated by a newline, and a JSON reader gets back from
\* it exactly the two strings, as server and client.
C13_RoundTrip ==
    fmtPc = "done" =>
        /\ fmtOut[Len(fmtOut)] = "\n"
        /\ fmtParsed = [ok |-> TRUE, server |-> fmtServer, client |-> fmtClient]

\* C14: a failing Accept or ReadFrom ends the whole process in the same step
\* with the fatal, non-zero exit code, in RUNNING and in DRAINING alike and
\* without the clock advancing towards a pending grace timer; once the
\* process has ended this way nothing changes any more, so no listener
\* accepts, receives or replies again and the failed call is not retried.
C14_LoopFailureIsFatal ==
    [][ /\ (TcpAcceptFail \/ UdpReadFail) =>
              /\ exited' /\ exitCode' = FatalCode /\ exitCode' # 0
              /\ exitCause' \in {"accept", "receive"}
              /\ now' = now
        /\ (exited /\ exitCause \in {"accept", "receive"}) => FALSE
        /\ (exited' /\ exitCause' \in {"accept", "receive"}) =>
              TcpAcceptFail \/ UdpReadFail
    ]_vars

\* C14 witness: Accept failed while DRAINING, before the grace timer was due
\* and with a datagram still waiting to be received.
C14_Witness ==
    /\ exited /\ exitCause = "accept" /\ exitCode = FatalCode
    /\ Len(timers) >= 1 /\ now < timers[1].start + GracePeriod
    /\ udpPc = "read" /\ udpQueue # <<>>

\* C15: a failed listen, address resolution or HTTP serve has ended the
\* process with the fatal exit code; there is no partial success: a live
\* process that is past the listener set-up has the socket of every protocol
\* it was asked to serve, and a TCP loop never runs in a live process whose
\* UDP set-up is over without a UDP socket.
C15_NoPartialSuccess ==
    /\ exitCause \in {"bind", "resolve", "serve"} => exited /\ exitCode = FatalCode
    /\ (~exited /\ mainPc \in {"http", "notify", "wait", "switch"}) =>
          /\ doTCP => "tcp" \in sockets /\ tcpPc # "off"
          /\ doUDP => "udp" \in sockets /\ udpPc # "off"
    /\ (~exited /\ tcpPc # "off" /\ doUDP /\ mainPc # "udp") => "udp" \in sockets
    /\ (~exited /\ mainPc = "udp" /\ doUDP) => ENABLED UdpListenFail

\* C15 witness: the UDP bind failed after the TCP listener was bound and had
\* already answered a connection; the process is gone.
C15_Witness ==
    /\ exited /\ exitCause = "bind" /\ exitCode = FatalCode
    /\ mainPc = "udp" /\ "tcp" \in sockets /\ "udp" \notin sockets
    /\ conns[1].state = "closed" /\ Len(conns[1].writes) = 1

\* C16: the step that makes a write or a reply, failed or not, leaves the
\* process alive and moves the loop on (to Close, to the next ReadFrom); a
\* connection whose write failed has that one write only and is closed or is
\* the one the loop is about to close, after which the loop accepts again; a
\* failed reply is followed by no second reply to the same datagram.
C16_WriteErrorIgnored ==
    /\ [][ /\ TcpWrite => ~exited' /\ tcpPc' = "close" /\ exitCause' = exitCause
           /\ UdpReply => ~exited' /\ udpPc' = "read" /\ exitCause' = exitCause
           /\ TcpClose => ~exited' /\ tcpPc' = "accept"
                             /\ conns'[tcpConn].state = "closed"
       ]_vars
    /\ [](\A c \in ConnIds :
            (conns[c].writes # <<>> /\ ~conns[c].writes[1].ok) =>
               /\ Len(conns[c].writes) = 1
               /\ \/ conns[c].state = "closed"
                  \/ tcpPc = "close" /\ tcpConn = c /\ (~exited => ENABLED TcpClose))
    /\ [](Len(udpReplies) <= Len(udpRecv))
    /\ [](\A i \in 1 .. Len(udpReplies) :
            ~udpReplies[i].ok => (~exited /\ udpPc = "read" /\ udpQueue # <<>>
                                     => ENABLED UdpRead))

\* C16 witness: the write to the first connection failed, the connection was
\* closed, the second connection was then accepted, answered and closed, and
\* the process is still alive.
C16_Witness ==
    /\ ~exited
    /\ conns[1].state = "closed" /\ Len(conns[1].writes) = 1 /\ ~conns[1].writes[1].ok
    /\ conns[2].state = "closed" /\ Len(conns[2].writes) = 1
    /\ tcpPc = "accept"

\* C17: the identity is set by one step only, the one before the listener
\* set-up, and never changes once set; while it is not set (also after a
\* failed resolution, which is fatal) no socket is open and no listener runs;
\* every line recorded by any listener reads back with the identity as its
\* server value.
C17_IdentityFixed ==
    /\ [][ /\ hostname # <<>> => hostname' = hostname
           /\ hostname' # hostname => HostnameOk /\ mainPc = "hostname"
                                         /\ sockets = {} /\ hostname' \in Hostnames
       ]_vars
    /\ [](hostname = <<>> =>
             /\ sockets = {} /\ tcpPc = "off" /\ udpPc = "off" /\ httpPc = "off"
             /\ mainPc \in {"default", "check", "hostname"})
    /\ [](exitCause = "hostname" =>
             exited /\ exitCode = FatalCode /\ hostname = <<>> /\ sockets = {})
    /\ [](/\ \A c \in ConnIds : \A i \in 1 .. Len(conns[c].writes) :
                ParseMessage(conns[c].writes[i].msg).server = hostname
          /\ \A i \in 1 .. Len(udpReplies) :
                ParseMessage(udpReplies[i].msg).server = hostname
          /\ \A r \in ReqIds : \A i \in 1 .. Len(reqs[r].body) :
                ParseMessage(reqs[r].body[i].msg).server = hostname)

\* C17 witness: a TCP line and a UDP line have been sent to different peers,
\* the second one while DRAINING, both with the same server value.
C17_Witness ==
    /\ hostname # <<>>
    /\ Len(conns[1].writes) = 1 /\ Len(udpReplies) = 1 /\ Len(timers) >= 1
    /\ ParseMessage(conns[1].writes[1].msg).ok
    /\ ParseMessage(udpReplies[1].msg).ok
    /\ ParseMessage(conns[1].writes[1].msg).server
          = ParseMessage(udpReplies[1].msg).server
    /\ ParseMessage(conns[1].writes[1].msg).client
          # ParseMessage(udpReplies[1].msg).client

\* C18: the clock never passes the first received SIGTERM by more than the
\* grace period while the process lives or when it has exited; every received
\* SIGTERM adds a timer of its own and leaves the earlier timers as they are;
\* an exit by timer happens exactly one grace period after the first SIGTERM.
C18_GraceNotExtended ==
    /\ [](termAt # <<>> => now <= termAt[1] + GracePeriod)
    /\ []((exited /\ exitCause = "timer") =>
             /\ timers[1].start = termAt[1]
             /\ now = termAt[1] + GracePeriod)
    /\ [][ /\ timers # <<>> => timers' # <<>> /\ timers'[1] = timers[1]
           /\ CoordTerm => /\ Len(timers') = Len(timers) + 1
                           /\ SubSeq(timers', 1, Len(timers)) = timers
                           /\ timers'[Len(timers')].start = now
       ]_vars

\* C18 witness: a second SIGTERM was received later than the first, while
\* DRAINING, and the process exited by timer one grace period after the first.
C18_Witness ==
    /\ exited /\ exitCause = "timer" /\ exitCode = 0
    /\ Len(timers) = 2 /\ timers[2].start > timers[1].start
    /\ now = timers[1].start + GracePeriod
    /\ now < timers[2].start + GracePeriod

\* C19: no SIGINT sent to the subscribed, live process is lost: the process
\* never sits out a grace period and exits by timer after a SIGINT was
\* delivered to it and dropped at the full signal channel.
C19_NoSigintLost ==
    (exited /\ exitCause = "timer") =>
        \A i \in 1 .. Len(sigLost) : sigLost[i] # SIGINT

\* C20: a process that has ended did so for one of the listed causes (a
\* received SIGINT, an expired grace timer after a received SIGTERM, or a
\* fatal error of configuration, hostname, bind, accept, receive or HTTP
\* serve), with exit code 0 exactly for the two signal-driven causes; a live
\* process on which no SIGTERM was received is RUNNING.
C20_ExitCauses ==
    /\ exited =>
          /\ exitCause \in {"SIGINT", "timer", "config", "hostname", "bind",
                            "resolve", "accept", "receive", "serve"}
          /\ exitCode = 0 <=> exitCause \in {"SIGINT", "timer"}
          /\ exitCause = "SIGINT" => sig = SIGINT /\ mainPc = "switch"
          /\ exitCause = "timer" => termAt # <<>> /\ now >= termAt[1] + GracePeriod
    /\ (~exited /\ termAt = <<>>) => State = "RUNNING"
====
